---- MODULE Spec2Model ----
(***************************************************************************)
(* Model of the AFAC airport-traffic reporting scripts:                    *)
(*   script.py / tendencia.py   monthly series of one airport, 4 charts    *)
(*   comparacion_anual.py       month x year comparison of one airport     *)
(*   top40.py / top50.py        ranking of airports by yearly total        *)
(* A pandas DataFrame is a record [error, columns, rows]; a cell is a      *)
(* record [nan, v] so that an undefined cell (NaN) is a value of its own.  *)
(***************************************************************************)
EXTENDS Integers, Sequences, FiniteSets, TLC

VARIABLES
    script,       \* which script runs: "script" | "tendencia"
    df,           \* the table read from the CSV file (a sequence of records)
    aeropuerto,   \* main: the airport drawn by random.choice
    data,         \* main: series of PASAJEROS
    data2,        \* main: series of OPERACIONES
    data_movil,   \* script.main: rolling mean of data
    data2_movil,  \* script.main: rolling mean of data2
    pc,           \* position in main
    error,        \* the exception that ended the run, "none" while it runs
    corrida,      \* number of the run (the script may be run again)
    archivos,     \* file system: file name -> airport of the chart it holds
    escritos,     \* every write_image of the series scripts so far
    args,         \* comparacion_anual / top40 / top50: the arguments of main
    tabla,        \* comparacion_anual / top40 / top50: the frame main works on
    internacional \* top50.main: the airports with international traffic

vars == <<script, df, aeropuerto, data, data2, data_movil, data2_movil,
          pc, error, corrida, archivos, escritos, args, tabla, internacional>>

\* the variables of the series scripts and those of the pivot scripts
varsSerie == <<aeropuerto, data, data2, data_movil, data2_movil, corrida, escritos>>
varsPivot == <<args, tabla, internacional>>

----------------------------------------------------------------------------
(* Bounds of the model *)

\* rows of a table drawn freely
MaxRows == 2
\* rows added freely before or after the base table
MaxExtra == 1
\* length of the longest series
MaxMeses == 110
\* times the script is run on the same file
MaxCorridas == 2
\* length of the longest series of the tables the script is run on repeatedly
MaxMesesCorridas == 2
\* airports of the largest table of the ranking scripts
MaxAeropuertos == 51

----------------------------------------------------------------------------
(* Cells and frames *)

NaN == [nan |-> TRUE, v |-> 0]
Val(x) == [nan |-> FALSE, v |-> x]

RECURSIVE SumSeq(_)
SumSeq(s) == IF s = <<>> THEN 0 ELSE Head(s) + SumSeq(Tail(s))

RECURSIVE SumSet(_, _)
\* sum of f[x] over the finite set S
SumSet(f, S) ==
    IF S = {} THEN 0
    ELSE LET x == CHOOSE y \in S : TRUE IN f[x] + SumSet(f, S \ {x})

\* pandas sum with skipna=True: NaN cells count as 0
Num(c) == IF c.nan THEN 0 ELSE c.v

NoFrame == [error |-> "unset", columns |-> {}, rows |-> <<>>]
Raise(e) == [error |-> e, columns |-> {}, rows |-> <<>>]
Frame(cols, rows) == [error |-> "none", columns |-> cols, rows |-> rows]

----------------------------------------------------------------------------
(* script.py / tendencia.py: constants *)

NACIONAL == "NACIONAL/DOMESTIC"
INTERNACIONAL == "INTERNACIONAL/ INTERNATIONAL"

\* MESES.keys(), in insertion order
MESES_keys == <<"ENE/JAN", "FEB/FEB", "MAR/MAR", "ABR/APR", "MAY/MAY", "JUN/JUN",
                "JUL/JUL", "AGO/AUG", "SEP/SEP", "OCT/OCT", "NOV/NOV", "DIC/DEC">>

\* the MESES dictionary: month label -> month number
MESES == [x \in {MESES_keys[i] : i \in 1..Len(MESES_keys)} |->
            CHOOSE i \in 1..Len(MESES_keys) : MESES_keys[i] = x]

\* datetime(año, mes, 1)
datetime(anio, mes, dia) == <<anio, mes, dia>>

\* t1 < t2 on datetimes
Antes(t1, t2) ==
    \/ t1[1] < t2[1]
    \/ t1[1] = t2[1] /\ t1[2] < t2[2]
    \/ t1[1] = t2[1] /\ t1[2] = t2[2] /\ t1[3] < t2[3]

----------------------------------------------------------------------------
(* The input table of script.py / tendencia.py *)

Aeropuertos == {"ACAPULCO", "TIJUANA"}
\* values of the column OPCIONES/ OPTIONS, as the words str.contains searches
Opciones == {<<"PASAJEROS", "/", "PASSENGERS">>, <<"OPERACIONES", "/ ", "FLIGHTS">>}
Anios == {2022, 2023}
Tipos == {NACIONAL, INTERNACIONAL}

\* the twelve month columns of one row: all months reported, or only the
\* first half of the year (the rest of the year holds 0)
MesesLleno == [x \in DOMAIN MESES |-> 1]
MesesMedio == [x \in DOMAIN MESES |-> IF MESES[x] <= 6 THEN 2 ELSE 0]

Registros ==
    [aeropuerto : Aeropuertos, opcion : Opciones, anio : Anios, tipo : Tipos,
     meses : {MesesMedio}]

\* every table of at most n rows
TablasHasta(n) == UNION {[1..k -> Registros] : k \in 0..n}

\* one year of one airport with every kind of row: both kinds of information
\* and both origins, every month reported
TablaBase ==
    << [aeropuerto |-> "ACAPULCO", opcion |-> <<"PASAJEROS", "/", "PASSENGERS">>,
        anio |-> 2022, tipo |-> NACIONAL, meses |-> MesesLleno],
       [aeropuerto |-> "ACAPULCO", opcion |-> <<"PASAJEROS", "/", "PASSENGERS">>,
        anio |-> 2022, tipo |-> INTERNACIONAL, meses |-> MesesLleno],
       [aeropuerto |-> "ACAPULCO", opcion |-> <<"OPERACIONES", "/ ", "FLIGHTS">>,
        anio |-> 2022, tipo |-> NACIONAL, meses |-> MesesLleno],
       [aeropuerto |-> "ACAPULCO", opcion |-> <<"OPERACIONES", "/ ", "FLIGHTS">>,
        anio |-> 2022, tipo |-> INTERNACIONAL, meses |-> MesesLleno] >>

\* a table where TIJUANA has a series of n consecutive months from January of
\* AnioInicial on (the months after the n-th hold 0), followed by the base table
AnioInicial == 2015
MesesHasta(j) == [x \in DOMAIN MESES |-> IF MESES[x] <= j THEN MESES[x] ELSE 0]
TablaLarga(n) ==
    LET anios == (n + 11) \div 12
        fila(k) ==
            [aeropuerto |-> "TIJUANA",
             opcion |-> IF (k - 1) % 4 < 2 THEN <<"PASAJEROS", "/", "PASSENGERS">>
                        ELSE <<"OPERACIONES", "/ ", "FLIGHTS">>,
             anio |-> AnioInicial + (k - 1) \div 4,
             tipo |-> IF k % 2 = 1 THEN NACIONAL ELSE INTERNACIONAL,
             meses |-> MesesHasta(n - 12 * ((k - 1) \div 4))]
    IN [k \in 1..(4 * anios) |-> fila(k)] \o TablaBase

\* The tables the model reads: every small table, the base table with extra
\* rows before or after it, and the long tables
Tablas ==
    TablasHasta(MaxRows)
    \cup {TablaBase \o t : t \in TablasHasta(MaxExtra)}
    \cup {t \o TablaBase : t \in TablasHasta(MaxExtra)}
    \cup {TablaLarga(n) : n \in 1..MaxMeses}

----------------------------------------------------------------------------
(* extraer_series_de_tiempo *)

\* Series.str.contains(tipo)
str_contains(s, tipo) == \E i \in 1..Len(s) : s[i] = tipo

\* Series.unique(): the distinct values in order of first appearance
RECURSIVE unique(_)
unique(s) ==
    IF s = <<>> THEN <<>>
    ELSE LET r == unique(SubSeq(s, 1, Len(s) - 1))
             x == s[Len(s)]
         IN IF \E i \in 1..Len(r) : r[i] = x THEN r ELSE Append(r, x)

Columna(t, campo) == [i \in 1..Len(t) |-> t[i][campo]]

\* df.groupby("TIPO/ TYPE").sum()[MESES.keys()].transpose() with the index
\* mapped to datetime(año, MESES[x], 1): one row per month, one column per
\* origin present among the rows of the year
temp_df(t, anio) ==
    LET delAnio == SelectSeq(t, LAMBDA r : r.anio = anio)
        tipos == {delAnio[i].tipo : i \in 1..Len(delAnio)}
        suma(tipo, x) ==
            SumSeq([i \in 1..Len(delAnio) |->
                      IF delAnio[i].tipo = tipo THEN delAnio[i].meses[x] ELSE 0])
    IN Frame(tipos,
             [k \in 1..Len(MESES_keys) |->
                [ts |-> datetime(anio, MESES[MESES_keys[k]], 1),
                 v |-> [c \in tipos |-> Val(suma(c, MESES_keys[k]))]]])

\* pd.concat(lista_df): rows in list order, columns the union of the frames'
\* columns, NaN where a frame lacks a column; ValueError on an empty list
RECURSIVE ConcatRows(_, _)
ConcatRows(lista, cols) ==
    IF lista = <<>> THEN <<>>
    ELSE LET f == Head(lista)
             ext == [k \in 1..Len(f.rows) |->
                       [ts |-> f.rows[k].ts,
                        v |-> [c \in cols |->
                                 IF c \in f.columns THEN f.rows[k].v[c] ELSE NaN]]]
         IN ext \o ConcatRows(Tail(lista), cols)

pd_concat(lista) ==
    IF lista = <<>> THEN Raise("ValueError")
    ELSE LET cols == UNION {lista[i].columns : i \in 1..Len(lista)}
         IN Frame(cols, ConcatRows(lista, cols))

\* final["total"] = final.sum(axis=1)
ConTotal(f) ==
    Frame(f.columns \cup {"total"},
          [k \in 1..Len(f.rows) |->
             [ts |-> f.rows[k].ts,
              v |-> [c \in f.columns \cup {"total"} |->
                       IF c = "total"
                       THEN Val(SumSet([d \in f.columns |-> Num(f.rows[k].v[d])],
                                       f.columns))
                       ELSE f.rows[k].v[c]]]])

\* the filter left out: every row is kept
SinCerosTodas(f) == f

\* final[final["total"] != 0]
SinCeros(f) ==
    Frame(f.columns, SelectSeq(f.rows, LAMBDA r : r.v["total"] # Val(0)))

\* the values of s in ascending order, each once
RECURSIVE Ascendente(_)
Ascendente(S) ==
    IF S = {} THEN <<>>
    ELSE LET x == CHOOSE y \in S : \A z \in S : y <= z
         IN <<x>> \o Ascendente(S \ {x})

\* the list of frames with the years sorted before the loop
lista_df_ordenada(t) ==
    LET anios == Ascendente({t[i].anio : i \in 1..Len(t)})
    IN [i \in 1..Len(anios) |-> temp_df(t, anios[i])]

\* the list of frames, one per year in the order of df["AÑO / YEAR"].unique()
lista_df(t) ==
    LET anios == unique(Columna(t, "anio"))
    IN [i \in 1..Len(anios) |-> temp_df(t, anios[i])]

\* the rows of df for one airport and one kind of information
Filtrar(t, aer, tipo) ==
    SelectSeq(t, LAMBDA r : r.aeropuerto = aer /\ str_contains(r.opcion, tipo))

extraer_series_de_tiempo(t, aer, tipo) ==
    LET final == pd_concat(lista_df(Filtrar(t, aer, tipo)))
    IN IF final.error # "none" THEN final ELSE SinCeros(ConTotal(final))
----------------------------------------------------------------------------
(* script.main / tendencia.main: smoothing, truncation, charts *)

\* the window of data.rolling(12)
ventana == 12
\* meses: the number of most recent months kept
meses == 96

\* a mean is kept exact, as the sum of the window over the window's length
Media(suma, n) == [nan |-> FALSE, v |-> suma, div |-> n]

\* the mean of the rows available so far (min_periods = 1): defined from the
\* first position on
rolling_mean_parcial(f, w) ==
    Frame(f.columns,
          [k \in 1..Len(f.rows) |->
             [ts |-> f.rows[k].ts,
              v |-> [c \in f.columns |->
                       LET desde == IF k >= w THEN k - w + 1 ELSE 1
                       IN IF \A j \in desde..k : ~f.rows[j].v[c].nan
                          THEN Media(SumSeq([j \in 1..(k - desde + 1) |->
                                               f.rows[desde + j - 1].v[c].v]),
                                     k - desde + 1)
                          ELSE NaN]]])

\* f.rolling(w).mean(): position k is defined when the w rows ending at k
\* exist and none of them is NaN (min_periods = w)
rolling_mean(f, w) ==
    Frame(f.columns,
          [k \in 1..Len(f.rows) |->
             [ts |-> f.rows[k].ts,
              v |-> [c \in f.columns |->
                       IF k >= w /\ \A j \in (k - w + 1)..k : ~f.rows[j].v[c].nan
                       THEN Media(SumSeq([j \in 1..w |-> f.rows[k - w + j].v[c].v]), w)
                       ELSE NaN]]])

\* the first n rows instead of the last
tail_primeras(f, n) ==
    Frame(f.columns, SubSeq(f.rows, 1, IF Len(f.rows) > n THEN n ELSE Len(f.rows)))

\* f[-n:] and f.tail(n): the last n rows
tail(f, n) ==
    Frame(f.columns,
          SubSeq(f.rows, IF Len(f.rows) > n THEN Len(f.rows) - n + 1 ELSE 1,
                 Len(f.rows)))

\* STL(f[c]).fit().trend stored as the column c_trend of f itself. The
\* decomposition is the statsmodels library's: its trend has one defined value
\* per row, here the mean of the whole column.
ConTendencia(f, c) ==
    LET nueva == c \o "_trend"
        t == Media(SumSeq([j \in 1..Len(f.rows) |-> Num(f.rows[j].v[c])]),
                   Len(f.rows))
    IN Frame(f.columns \cup {nueva},
             [k \in 1..Len(f.rows) |->
                [ts |-> f.rows[k].ts,
                 v |-> [d \in f.columns \cup {nueva} |->
                          IF d = nueva THEN t ELSE f.rows[k].v[d]]]])

\* The four calls of graficar in main, in order: the frame charted, tipo, origen
\* and the column read
Graficas ==
    << [datos |-> "data",  tipo |-> "pasajeros",   origen |-> "nacionales",
        columna |-> NACIONAL],
       [datos |-> "data",  tipo |-> "pasajeros",   origen |-> "internacionales",
        columna |-> INTERNACIONAL],
       [datos |-> "data2", tipo |-> "operaciones", origen |-> "nacionales",
        columna |-> NACIONAL],
       [datos |-> "data2", tipo |-> "operaciones", origen |-> "internacionales",
        columna |-> INTERNACIONAL] >>

\* str.title() of the airports of the table, and NOMBRES.get(x, x): neither
\* airport is a key of NOMBRES
title(x) == IF x = "ACAPULCO" THEN "Acapulco"
            ELSE IF x = "TIJUANA" THEN "Tijuana" ELSE x
NOMBRES_get(x) == x

\* a path that names the airport too
NombreArchivoConAeropuerto(s, aer, tipo, origen) ==
    <<IF s = "script" THEN "./" ELSE "./imgs/", aer, "_", tipo, "_", origen, ".png">>

\* the path handed to fig.write_image
NombreArchivo(s, aer, tipo, origen) ==
    <<IF s = "script" THEN "./" ELSE "./imgs/", tipo, "_", origen, ".png">>

\* the exception that ends a run: its type, the step of main that raised it
\* and, for a KeyError, the column that was missing
SinError == [exc |-> "none", paso |-> "none", clave |-> "none"]
Error(e, paso) == [exc |-> e, paso |-> paso, clave |-> "none"]
KeyError(clave, paso) == [exc |-> "KeyError", paso |-> paso, clave |-> clave]

\* each call guarded: main goes on with the next chart
TrasFalloSigue(k) ==
    IF k = 1 THEN "graficar2" ELSE IF k = 2 THEN "graficar3"
    ELSE IF k = 3 THEN "graficar4" ELSE "fin"

\* where main stands after chart k raised: no call of graficar is guarded, the
\* exception leaves main
TrasFallo(k) == "error"

Init ==
    /\ script \in {"script", "tendencia"}
    /\ df \in Tablas
    /\ aeropuerto = "unset"
    /\ data = NoFrame /\ data2 = NoFrame
    /\ data_movil = NoFrame /\ data2_movil = NoFrame
    /\ pc = "inicio"
    /\ error = SinError
    /\ corrida = 1
    /\ archivos = <<>>
    /\ escritos = {}
    /\ args = <<>>
    /\ tabla = NoFrame
    /\ internacional = {}

\* random.choice(df["AEROPUERTO / AIRPORT"].unique()): IndexError on an empty table
Elegir ==
    /\ pc = "inicio"
    /\ IF df = <<>>
       THEN /\ pc' = "error"
            /\ error' = Error("IndexError", "elegir")
            /\ UNCHANGED aeropuerto
       ELSE /\ \E i \in 1..Len(df) : aeropuerto' = df[i].aeropuerto
            /\ pc' = "extraer"
            /\ UNCHANGED error
    /\ UNCHANGED <<script, df, data, data2, data_movil, data2_movil, corrida,
                   archivos, escritos, varsPivot>>

\* data = extraer_series_de_tiempo(df, aeropuerto, "PASAJEROS")
\* data2 = extraer_series_de_tiempo(df, aeropuerto, "OPERACIONES")
Extraer ==
    /\ pc = "extraer"
    /\ LET d1 == extraer_series_de_tiempo(df, aeropuerto, "PASAJEROS")
           d2 == extraer_series_de_tiempo(df, aeropuerto, "OPERACIONES")
       IN IF d1.error # "none"
          THEN /\ pc' = "error" /\ error' = Error(d1.error, "extraer")
               /\ UNCHANGED <<data, data2>>
          ELSE IF d2.error # "none"
          THEN /\ pc' = "error" /\ error' = Error(d2.error, "extraer")
               /\ data' = d1 /\ UNCHANGED data2
          ELSE /\ pc' = "suavizar" /\ data' = d1 /\ data2' = d2
               /\ UNCHANGED error
    /\ UNCHANGED <<script, df, aeropuerto, data_movil, data2_movil, corrida,
                   archivos, escritos, varsPivot>>

\* script.main: data_movil = data.rolling(12).mean(), the same for data2
MediaMovil ==
    /\ pc = "suavizar" /\ script = "script"
    /\ data_movil' = rolling_mean(data, ventana)
    /\ data2_movil' = rolling_mean(data2, ventana)
    /\ pc' = "truncar"
    /\ UNCHANGED <<script, df, aeropuerto, data, data2, error, corrida,
                   archivos, escritos, varsPivot>>

\* tendencia.main: the four trend columns, in order; reading a column the
\* frame lacks is a KeyError, and the decomposition itself may raise
Tendencias ==
    /\ pc = "suavizar" /\ script = "tendencia"
    /\ \E stl_falla \in BOOLEAN :
         IF NACIONAL \notin data.columns \/ INTERNACIONAL \notin data.columns
         THEN /\ pc' = "error"
              /\ error' = KeyError(IF NACIONAL \in data.columns
                                   THEN INTERNACIONAL ELSE NACIONAL, "suavizar")
              /\ data' = IF NACIONAL \in data.columns
                         THEN ConTendencia(data, NACIONAL) ELSE data
              /\ UNCHANGED data2
         ELSE IF NACIONAL \notin data2.columns \/ INTERNACIONAL \notin data2.columns
         THEN /\ pc' = "error"
              /\ error' = KeyError(IF NACIONAL \in data2.columns
                                   THEN INTERNACIONAL ELSE NACIONAL, "suavizar")
              /\ data' = ConTendencia(ConTendencia(data, NACIONAL), INTERNACIONAL)
              /\ data2' = IF NACIONAL \in data2.columns
                          THEN ConTendencia(data2, NACIONAL) ELSE data2
         ELSE IF stl_falla
         THEN /\ pc' = "error" /\ error' = Error("ValueError", "suavizar")
              /\ UNCHANGED <<data, data2>>
         ELSE /\ pc' = "truncar" /\ UNCHANGED error
              /\ data' = ConTendencia(ConTendencia(data, NACIONAL), INTERNACIONAL)
              /\ data2' = ConTendencia(ConTendencia(data2, NACIONAL), INTERNACIONAL)
    /\ UNCHANGED <<script, df, aeropuerto, data_movil, data2_movil, corrida,
                   archivos, escritos, varsPivot>>

\* the last 96 months of every frame
Truncar ==
    /\ pc = "truncar"
    /\ data' = tail(data, meses)
    /\ data2' = tail(data2, meses)
    /\ IF script = "script"
       THEN /\ data_movil' = tail(data_movil, meses)
            /\ data2_movil' = tail(data2_movil, meses)
       ELSE UNCHANGED <<data_movil, data2_movil>>
    /\ pc' = "graficar1"
    /\ UNCHANGED <<script, df, aeropuerto, error, corrida, archivos, escritos,
                   varsPivot>>

PasoGrafica(k) ==
    IF k = 1 THEN "graficar1" ELSE IF k = 2 THEN "graficar2"
    ELSE IF k = 3 THEN "graficar3" ELSE IF k = 4 THEN "graficar4" ELSE "fin"

Datos(g) == IF g.datos = "data" THEN data ELSE data2

\* whether chart g can read its column: script.graficar reads df[columna]
\* (tendencia.main has read every column before the first chart)
ColumnaPresente(g) == g.columna \in Datos(g).columns

\* the k-th call of graficar: a KeyError when the column is missing, an error of
\* the renderer when write_image raises, the image written otherwise
Graficar(k) ==
    /\ pc = PasoGrafica(k)
    /\ LET g == Graficas[k]
           nombre == NombreArchivo(script, NOMBRES_get(title(aeropuerto)),
                                   g.tipo, g.origen)
       IN \E render_falla \in BOOLEAN :
            IF ~ColumnaPresente(g)
            THEN /\ pc' = TrasFallo(k) /\ error' = KeyError(g.columna, PasoGrafica(k))
                 /\ UNCHANGED <<archivos, escritos>>
            ELSE IF render_falla
            THEN /\ pc' = TrasFallo(k) /\ error' = Error("RenderError", PasoGrafica(k))
                 /\ UNCHANGED <<archivos, escritos>>
            ELSE /\ pc' = PasoGrafica(k + 1)
                 /\ archivos' = (nombre :> [aeropuerto |-> aeropuerto,
                                            corrida |-> corrida]) @@ archivos
                 /\ escritos' = escritos \cup
                        {[corrida |-> corrida, aeropuerto |-> aeropuerto,
                          grafica |-> k, nombre |-> nombre]}
                 /\ UNCHANGED error
    /\ UNCHANGED <<script, df, aeropuerto, data, data2, data_movil, data2_movil,
                   corrida, varsPivot>>

\* the script is run again on the same file; the images of earlier runs remain
NuevaCorrida ==
    /\ pc \in {"fin", "error"}
    /\ corrida < MaxCorridas
    /\ corrida' = corrida + 1
    /\ pc' = "inicio"
    /\ error' = SinError
    /\ aeropuerto' = "unset"
    /\ data' = NoFrame /\ data2' = NoFrame
    /\ data_movil' = NoFrame /\ data2_movil' = NoFrame
    /\ UNCHANGED <<script, df, archivos, escritos, varsPivot>>

Main ==
    \/ Elegir
    \/ Extraer
    \/ MediaMovil
    \/ Tendencias
    \/ Truncar
    \/ \E k \in 1..4 : Graficar(k)

Next == Main

Spec == Init /\ [][Next]_vars

NextCorridas == Main \/ NuevaCorrida

InitCorridas ==
    /\ Init
    /\ df \in {TablaLarga(n) : n \in 1..MaxMesesCorridas}

SpecCorridas == InitCorridas /\ [][NextCorridas]_vars

----------------------------------------------------------------------------
(* Properties of the series scripts *)

\* the two calls of extraer_series_de_tiempo in main
Series ==
    {[f |-> data, tipo |-> "PASAJEROS"], [f |-> data2, tipo |-> "OPERACIONES"]}

\* main holds both series as extraer_series_de_tiempo returned them
RecienExtraido == pc = "suavizar"

Creciente(rows) ==
    \A k \in 1..(Len(rows) - 1) : Antes(rows[k].ts, rows[k + 1].ts)

\* C1: every series returned by extraer_series_de_tiempo has strictly
\* increasing timestamps, also when the table lists the years out of order.
C1_TimestampsCrecientes ==
    \A s \in Series : s.f.error = "none" => Creciente(s.f.rows)

\* the rows of t of one year hold no row of international origin
SinInternacional(t, anio) ==
    \A i \in 1..Len(t) : t[i].anio = anio => t[i].tipo # INTERNACIONAL

\* C2: when the filtered records hold no INTERNACIONAL row, in one year or in
\* all, the series still has an INTERNACIONAL column, defined and 0 at every
\* timestamp of such a year, and no later read of the column is a KeyError.
C2_InternacionalEnCeros ==
    /\ ~(error.exc = "KeyError" /\ error.clave = INTERNACIONAL)
    /\ RecienExtraido =>
         \A s \in Series : \A k \in 1..Len(s.f.rows) :
            SinInternacional(Filtrar(df, aeropuerto, s.tipo), s.f.rows[k].ts[1])
            => /\ INTERNACIONAL \in s.f.columns
               /\ s.f.rows[k].v[INTERNACIONAL] = Val(0)

\* main has called extraer_series_de_tiempo for both kinds of information
Extraccion == pc \notin {"inicio", "extraer"} /\ error.paso # "elegir"

\* C4: when the filter selects no row, extraer_series_de_tiempo finishes
\* without an error and returns an empty series.
C4_FiltroVacioSinError ==
    Extraccion =>
        /\ Filtrar(df, aeropuerto, "PASAJEROS") = <<>>
           => data.error = "none" /\ data.rows = <<>>
        /\ (data.error = "none" /\ Filtrar(df, aeropuerto, "OPERACIONES") = <<>>)
           => data2.error = "none" /\ data2.rows = <<>>

\* the sum of a row across the origin columns
SumaOrigenes(f, k) ==
    SumSet([c \in f.columns \cap Tipos |-> Num(f.rows[k].v[c])],
           f.columns \cap Tipos)

\* C7: no row of a series returned by extraer_series_de_tiempo has a total of
\* 0, the total being the sum across the origin columns.
C7_SinTotalCero ==
    \A s \in Series : s.f.error = "none" =>
        \A k \in 1..Len(s.f.rows) :
            /\ SumaOrigenes(s.f, k) # 0
            /\ s.f.rows[k].v["total"] = Val(SumaOrigenes(s.f, k))

\* C7 witness: a series from which the months that sum 0 were dropped
C7_Witness ==
    /\ RecienExtraido
    /\ data.rows # <<>>
    /\ Len(data.rows) < Len(pd_concat(lista_df(Filtrar(df, aeropuerto, "PASAJEROS"))).rows)

\* C8 (as stated): runs for different airports write to distinct file names.
C8_NombresDistintosPorAeropuerto ==
    \A e1, e2 \in escritos :
        e1.aeropuerto # e2.aeropuerto => e1.nombre # e2.nombre

\* C8 (amended): the file name is determined by the category and the origin
\* alone. Two charts have the same name exactly when they are the same one of
\* the four charts, whatever the airport, so a later run overwrites the
\* earlier run's chart: each file holds the chart of the last run that wrote it.
C8_NombrePorTipoYOrigen ==
    /\ \A e1, e2 \in escritos : (e1.nombre = e2.nombre) <=> (e1.grafica = e2.grafica)
    /\ \A e \in escritos :
          /\ e.nombre \in DOMAIN archivos
          /\ archivos[e.nombre].corrida >= e.corrida

\* C8 witness: a chart of one airport overwritten by the chart of another
C8_Witness ==
    \E e1, e2 \in escritos :
        /\ e1.aeropuerto # e2.aeropuerto
        /\ e1.grafica = e2.grafica
        /\ e1.corrida < e2.corrida
        /\ archivos[e1.nombre].aeropuerto = e2.aeropuerto

\* the charts written by the current run
Hechas == {e.grafica : e \in {x \in escritos : x.corrida = corrida}}

\* chart k has its data: its series was synthesized and holds its column
DatosValidos(k) ==
    /\ Datos(Graficas[k]).error = "none"
    /\ Graficas[k].columna \in Datos(Graficas[k]).columns

PasosGrafica == {PasoGrafica(k) : k \in 1..4}

\* C9 (as stated): a failure while generating one chart has no effect on the
\* other charts of the run, each of which is written when its data is valid.
C9_FalloAislado ==
    \A j \in 1..4 :
        (pc = "error" /\ error.paso = PasoGrafica(j)) =>
            \A k \in (1..4) \ {j} : DatosValidos(k) => k \in Hechas

\* C9 (amended): a failure aborts the run. The charts before the failing one
\* are written, the failing chart and every chart after it are not; a failure
\* before the first chart leaves no chart; a run without failure writes all four.
C9_FalloAbortaCorrida ==
    /\ error.paso \in {"elegir", "extraer", "suavizar"} => Hechas = {}
    /\ \A j \in 1..4 :
          (pc = PasoGrafica(j) \/ error.paso = PasoGrafica(j)) => Hechas = 1..(j - 1)
    /\ pc = "fin" => Hechas = 1..4
    /\ error.exc # "none" <=> pc = "error"

\* C9 witness: the second chart failed and the third, whose data is valid, was
\* not written
C9_Witness ==
    /\ pc = "error" /\ error.paso = PasoGrafica(2)
    /\ DatosValidos(3)
    /\ 3 \notin Hechas

\* the pairs (series, rolling mean) of script.main and the series as synthesized
SeriesMovil ==
    {[f |-> data, m |-> data_movil,
      full |-> extraer_series_de_tiempo(df, aeropuerto, "PASAJEROS")],
     [f |-> data2, m |-> data2_movil,
      full |-> extraer_series_de_tiempo(df, aeropuerto, "OPERACIONES")]}

SinNaN(f, c) == \A k \in 1..Len(f.rows) : ~f.rows[k].v[c].nan
Indefinidas(f, c) == {k \in 1..Len(f.rows) : f.rows[k].v[c].nan}

\* script.main has computed the rolling means and not yet truncated
Suavizado == script = "script" /\ pc = "truncar"
\* script.main has truncated the series: they are what graficar receives
Truncado ==
    /\ script = "script"
    /\ pc \in PasosGrafica \cup {"fin"} \/ error.paso \in PasosGrafica

Max(a, b) == IF a >= b THEN a ELSE b

\* the rolling mean of a series of n rows: n rows on the same timestamps, the
\* first 11 undefined, max(0, n - 11) defined
MediaMovilAlineada ==
    Suavizado =>
        \A s \in SeriesMovil :
            /\ Len(s.m.rows) = Len(s.f.rows)
            /\ \A k \in 1..Len(s.f.rows) : s.m.rows[k].ts = s.f.rows[k].ts
            /\ \A c \in s.f.columns : SinNaN(s.f, c) =>
                  /\ Indefinidas(s.m, c) = {k \in 1..Len(s.f.rows) : k <= ventana - 1}
                  /\ Cardinality((1..Len(s.m.rows)) \ Indefinidas(s.m, c))
                       = Max(0, Len(s.f.rows) - (ventana - 1))

\* C10 (as stated): n positions, the first 11 undefined and max(0, n - 11)
\* defined, and no undefined position among the values handed to graficar.
C10_SinIndefinidasAlGraficar ==
    /\ MediaMovilAlineada
    /\ Truncado =>
          \A s \in SeriesMovil : \A c \in s.full.columns :
              SinNaN(s.full, c) => Indefinidas(s.m, c) = {}

\* C10 (amended): n positions, the first 11 undefined and max(0, n - 11)
\* defined; the undefined positions are not removed: of the last min(n, 96)
\* positions handed to graficar, those that are among the first 11 of the
\* whole series are undefined, so none is undefined only when n >= 107.
C10_IndefinidasAlGraficar ==
    /\ MediaMovilAlineada
    /\ Truncado =>
          \A s \in SeriesMovil : \A c \in s.full.columns :
              SinNaN(s.full, c) =>
                  /\ Len(s.m.rows) = IF Len(s.full.rows) > meses THEN meses
                                      ELSE Len(s.full.rows)
                  /\ Indefinidas(s.m, c) =
                       {k \in 1..Len(s.m.rows) :
                           k + Max(0, Len(s.full.rows) - meses) <= ventana - 1}

\* C10 witness: a series longer than 96 months whose truncated rolling mean
\* still starts with undefined positions
C10_Witness ==
    /\ Truncado
    /\ Len(data_movil.rows) = meses
    /\ Len(extraer_series_de_tiempo(df, aeropuerto, "PASAJEROS").rows) > meses
    /\ data_movil.rows[1].v[NACIONAL].nan
    /\ ~data_movil.rows[meses].v[NACIONAL].nan

----------------------------------------------------------------------------
(* comparacion_anual.py, top40.py, top50.py: the input tables *)

\* rows of main kept by df.head
Top40N == 40
Top50N == 50

\* the arguments of main in the scripts' __main__ blocks
AnioTop == 2023
PrimerAnio == 2023
SegundoAnio == 2024

\* the values of the columns of each script's CSV file
OpcionesDe(s) ==
    IF s = "top50" THEN {"OPERACIONES/ FLIGHTS", "PASAJEROS/PASSENGERS"}
    ELSE {"OPERACIONES", "PASAJEROS"}
TiposDe(s) ==
    IF s = "top50" THEN {NACIONAL, INTERNACIONAL} ELSE {"NACIONAL", "INTERNACIONAL"}
NacionalDe(s) == IF s = "top50" THEN NACIONAL ELSE "NACIONAL"
InternacionalDe(s) == IF s = "top50" THEN INTERNACIONAL ELSE "INTERNACIONAL"
OperacionesDe(s) == IF s = "top50" THEN "OPERACIONES/ FLIGHTS" ELSE "OPERACIONES"
PasajerosDe(s) == IF s = "top50" THEN "PASAJEROS/PASSENGERS" ELSE "PASAJEROS"

\* the values of the argument opcion of main
ArgsOpcion(s) ==
    IF s = "top50" THEN {"operaciones", "pasajeros"} ELSE {"OPERACIONES", "PASAJEROS"}

\* one row of a CSV file: airport, kind of information, year and month of the
\* period, origin and total
Fila(aer, opcion, anio, mes, tipo, total) ==
    [aeropuerto |-> aer, opcion |-> opcion, anio |-> anio, mes |-> mes,
     tipo |-> tipo, total |-> total]

\* the rows added freely to a base table
FilasExtra(s) ==
    IF s = "comparacion_anual"
    THEN [aeropuerto : Aeropuertos, opcion : OpcionesDe(s),
          anio : {2022, PrimerAnio, SegundoAnio}, mes : {1, 12},
          tipo : {NacionalDe(s)}, total : {0, 1}]
    ELSE [aeropuerto : Aeropuertos, opcion : OpcionesDe(s),
          anio : {2022, AnioTop}, mes : {1},
          tipo : TiposDe(s), total : {0, 1}]

\* the months 1..hasta of one year of ACAPULCO's passengers
BaseMeses(anio, hasta, total) ==
    [m \in 1..hasta |-> Fila("ACAPULCO", "PASAJEROS", anio, m, "NACIONAL", total)]

\* an airport with both origins and an airport with domestic traffic only
BaseTop(s) ==
    << Fila("ACAPULCO", OperacionesDe(s), AnioTop, 1, NacionalDe(s), 2),
       Fila("ACAPULCO", OperacionesDe(s), AnioTop, 1, InternacionalDe(s), 1),
       Fila("ACAPULCO", PasajerosDe(s), AnioTop, 1, NacionalDe(s), 2),
       Fila("ACAPULCO", PasajerosDe(s), AnioTop, 1, InternacionalDe(s), 1),
       Fila("TIJUANA", OperacionesDe(s), AnioTop, 1, NacionalDe(s), 1),
       Fila("TIJUANA", PasajerosDe(s), AnioTop, 1, NacionalDe(s), 1) >>

\* the base tables of each script: for comparacion_anual both years complete,
\* one year only, December missing in the first year, December missing in both
Bases(s) ==
    IF s = "comparacion_anual"
    THEN {<<>>,
          BaseMeses(PrimerAnio, 12, 1) \o BaseMeses(SegundoAnio, 12, 2),
          BaseMeses(PrimerAnio, 12, 1),
          BaseMeses(PrimerAnio, 11, 1) \o BaseMeses(SegundoAnio, 12, 2),
          BaseMeses(PrimerAnio, 11, 1) \o BaseMeses(SegundoAnio, 11, 2)}
    ELSE {<<>>, BaseTop(s)}

\* the name of the i-th airport of a large table: "10", "11", ... (str.title
\* leaves such a name as it is)
Numerado(i) == ToString(9 + i)

\* a table of n airports with flights in the year: the i-th has i domestic
\* flights, but the first has one domestic and one international flight, the
\* same total as the second
Muchos(s, n) ==
    << Fila(Numerado(1), OperacionesDe(s), AnioTop, 1, InternacionalDe(s), 1) >>
    \o [i \in 1..n |->
          Fila(Numerado(i), OperacionesDe(s), AnioTop, 1, NacionalDe(s),
               IF i = 1 THEN 1 ELSE i)]

TablasPivot(s) ==
    {b \o x : b \in Bases(s),
              x \in UNION {[1..k -> FilasExtra(s)] : k \in 0..MaxExtra}}
    \cup (IF s = "comparacion_anual" THEN {}
          ELSE {Muchos(s, n) : n \in (Top40N - 1)..MaxAeropuertos})

----------------------------------------------------------------------------
(* DataFrame.pivot_table *)

\* aggfunc that keeps the last value of a cell instead of adding
aggfunc_last(totales) == IF totales = <<>> THEN 0 ELSE totales[Len(totales)]

\* aggfunc="sum"
aggfunc_sum(totales) == SumSeq(totales)

\* df.pivot_table(index, columns, values=total, aggfunc="sum", fill_value):
\* one row per row key and one column per column key among the records, keys
\* sorted; a cell holds the sum of the totals of its records, and where no
\* record matches it holds fill_value, which is NaN when none is given.
\* orden lists the possible row keys in sorted order.
pivot_table(t, index, columns, orden, fill_value) ==
    LET cols == {t[i][columns] : i \in 1..Len(t)}
        keys == SelectSeq(orden, LAMBDA k : \E i \in 1..Len(t) : t[i][index] = k)
        celda(k, c) ==
            LET suyos == SelectSeq(t, LAMBDA r : r[index] = k /\ r[columns] = c)
            IN IF suyos = <<>>
               THEN fill_value
               ELSE Val(aggfunc_sum([i \in 1..Len(suyos) |-> suyos[i].total]))
    IN Frame(cols, [j \in 1..Len(keys) |->
                      [key |-> keys[j], v |-> [c \in cols |-> celda(keys[j], c)]]])

\* sorted order of the row keys
OrdenAeropuertos ==
    [i \in 1..MaxAeropuertos |-> Numerado(i)] \o <<"ACAPULCO", "TIJUANA">>
OrdenMeses == [m \in 1..12 |-> m]

\* the fields of a record that hold the columns AEROPUERTO and TIPO, and the
\* month and the year of its date
Aeropuerto == "aeropuerto"
Tipo == "tipo"
Mes == "mes"
Anio == "anio"

----------------------------------------------------------------------------
(* comparacion_anual.main *)

\* MESES of comparacion_anual.py
MESES_abreviados ==
    <<"Ene.", "Feb.", "Mar.", "Abr.", "May.", "Jun.",
      "Jul.", "Ago.", "Sep.", "Oct.", "Nov.", "Dic.">>

lower(x) == IF x = "Acapulco" THEN "acapulco"
            ELSE IF x = "Tijuana" THEN "tijuana" ELSE x

\* the rows after the filters of main: of comparacion_anual by airport, kind
\* and the two years; of top40 by year and kind; of top50 by year and kind
Filtrado ==
    IF script = "comparacion_anual"
    THEN SelectSeq(df, LAMBDA r : /\ r.aeropuerto = args.aeropuerto
                                  /\ r.opcion = args.opcion
                                  /\ r.anio \in {args.primer, args.segundo})
    ELSE IF script = "top40"
    THEN SelectSeq(df, LAMBDA r : r.anio = args.anio /\ r.opcion = args.opcion)
    ELSE SelectSeq(df, LAMBDA r :
            /\ r.anio = args.anio
            /\ \/ args.opcion = "operaciones" /\ r.opcion = "OPERACIONES/ FLIGHTS"
               \/ args.opcion = "pasajeros" /\ r.opcion = "PASAJEROS/PASSENGERS")

InitPivot ==
    /\ script \in {"comparacion_anual", "top40", "top50"}
    /\ df \in TablasPivot(script)
    /\ args \in IF script = "comparacion_anual"
                THEN [primer : {PrimerAnio}, segundo : {SegundoAnio},
                      opcion : ArgsOpcion(script), aeropuerto : {"ACAPULCO"}]
                ELSE [anio : {AnioTop}, opcion : ArgsOpcion(script)]
    /\ tabla = NoFrame
    /\ internacional = {}
    /\ pc = "inicio"
    /\ error = SinError
    /\ archivos = <<>>
    /\ aeropuerto = "unset"
    /\ data = NoFrame /\ data2 = NoFrame
    /\ data_movil = NoFrame /\ data2_movil = NoFrame
    /\ corrida = 1
    /\ escritos = {}

\* lines 64-83: the filters and the pivot by month and year
CompPivotar ==
    /\ script = "comparacion_anual" /\ pc = "inicio"
    /\ tabla' = pivot_table(Filtrado, Mes, Anio, OrdenMeses, Val(0))
    /\ pc' = "meses"
    /\ UNCHANGED <<script, df, args, internacional, error, archivos, varsSerie>>

\* df.index = MESES: the twelve labels replace the index by position; a
\* ValueError when the frame does not have twelve rows
CompMeses ==
    /\ script = "comparacion_anual" /\ pc = "meses"
    /\ IF Len(tabla.rows) # Len(MESES_abreviados)
       THEN /\ pc' = "error" /\ error' = Error("ValueError", "meses")
            /\ UNCHANGED tabla
       ELSE /\ tabla' = Frame(tabla.columns,
                              [j \in 1..Len(tabla.rows) |->
                                 [key |-> MESES_abreviados[j], v |-> tabla.rows[j].v]])
            /\ pc' = "graficar"
            /\ UNCHANGED error
    /\ UNCHANGED <<script, df, args, internacional, archivos, varsSerie>>

Maximo(S) == CHOOSE x \in S : \A y \in S : y <= x
Minimo(S) == CHOOSE x \in S : \A y \in S : x <= y

\* lines 89-220: the two bar traces read df[primer_año] and df[segundo_año],
\* the vertical range goes up to the largest cell, the image is written
CompGraficar ==
    /\ script = "comparacion_anual" /\ pc = "graficar"
    /\ \E render_falla \in BOOLEAN :
         IF args.primer \notin tabla.columns
         THEN /\ pc' = "error" /\ error' = KeyError(ToString(args.primer), "graficar")
              /\ UNCHANGED archivos
         ELSE IF args.segundo \notin tabla.columns
         THEN /\ pc' = "error" /\ error' = KeyError(ToString(args.segundo), "graficar")
              /\ UNCHANGED archivos
         ELSE IF render_falla
         THEN /\ pc' = "error" /\ error' = Error("RenderError", "graficar")
              /\ UNCHANGED archivos
         ELSE LET nombre == <<"./comparacion_", args.opcion, "_",
                              lower(NOMBRES_get(title(args.aeropuerto))), ".png">>
                  valor_max ==
                      Maximo({tabla.rows[j].v[c].v :
                                j \in 1..Len(tabla.rows),
                                c \in {args.primer, args.segundo}})
              IN /\ archivos' = (nombre :> [filas |-> tabla.rows,
                                            rango |-> <<0, valor_max>>]) @@ archivos
                 /\ pc' = "fin"
                 /\ UNCHANGED error
    /\ UNCHANGED <<script, df, args, tabla, internacional, varsSerie>>

----------------------------------------------------------------------------
(* top40.main and top50.main *)

\* the name of the column of totals
ColTotal == IF script = "top40" THEN "TOTAL" ELSE "total"

\* the rows of a frame with one more column, its cells given row by row
ConColumna(f, c, celdas) ==
    Frame(f.columns \cup {c},
          [j \in 1..Len(f.rows) |->
             [key |-> f.rows[j].key,
              v |-> [d \in f.columns \cup {c} |->
                       IF d = c THEN celdas[j] ELSE f.rows[j].v[d]]]])

\* df.sum(axis=1): the sum of the defined cells of a row
SumaFila(f, r) == SumSet([c \in f.columns |-> Num(r.v[c])], f.columns)

\* the column of the sums of the rows
Sumas(f) == [j \in 1..Len(f.rows) |-> Val(SumaFila(f, f.rows[j]))]

\* np.log10 of a column value, kept symbolic: of nan it is nan, of 0 it is
\* -inf, of 1 it is 0, of a larger integer it is positive
log10(c) ==
    [de |-> c,
     clase |-> IF c.nan THEN "nan"
               ELSE IF c.v = 0 THEN "-inf"
               ELSE IF c.v = 1 THEN "cero" ELSE "positivo"]

\* Series.max() and Series.min(): nan on an empty column
ColMax(f, c) ==
    IF f.rows = <<>> THEN NaN
    ELSE Val(Maximo({f.rows[j].v[c].v : j \in 1..Len(f.rows)}))
ColMin(f, c) ==
    IF f.rows = <<>> THEN NaN
    ELSE Val(Minimo({f.rows[j].v[c].v : j \in 1..Len(f.rows)}))

\* natural numbers of any size as sequences of digits, lowest first
Base == 1000
RECURSIVE Por(_, _, _)
Por(ds, k, acarreo) ==
    IF ds = <<>>
    THEN (IF acarreo = 0 THEN <<>>
          ELSE <<acarreo % Base>> \o Por(<<>>, k, acarreo \div Base))
    ELSE LET x == Head(ds) * k + acarreo
         IN <<x % Base>> \o Por(Tail(ds), k, x \div Base)
\* the product of two numbers: the sums of the products of their digits,
\* then the carries
Veces(x, y) ==
    Por([k \in 1..(Len(x) + Len(y) - 1) |->
           SumSeq([i \in 1..Len(x) |->
                     IF k + 1 - i \in 1..Len(y) THEN x[i] * y[k + 1 - i] ELSE 0])],
        1, 0)
RECURSIVE Potencia(_, _)
Potencia(t, a) ==
    IF a = 0 THEN <<1>>
    ELSE LET mitad == Potencia(t, a \div 2)
             cuadrado == Veces(mitad, mitad)
         IN IF a % 2 = 1 THEN Por(cuadrado, t, 0) ELSE cuadrado
MenorIgual(x, y) ==
    IF Len(x) # Len(y) THEN Len(x) < Len(y)
    ELSE \/ x = y
         \/ LET distintos == {i \in 1..Len(x) : x[i] # y[i]}
                alto == CHOOSE i \in distintos : \A j \in distintos : j <= i
            IN x[alto] < y[alto]

\* the thresholds of text_pos, 0.95 and 0.97, as fractions
Umbral == IF script = "top40" THEN <<19, 20>> ELSE <<97, 100>>

\* "outside" if x <= umbral else "inside", x = log10(total) / log10(maximo):
\* nan compares false; -inf and 0 / positive are below the threshold; for two
\* positive logarithms t^den <= maximo^num decides
text_pos(num, den) ==
    IF num.clase = "nan" \/ den.clase = "nan" THEN "inside"
    ELSE IF den.clase = "-inf" THEN (IF num.clase = "-inf" THEN "inside" ELSE "outside")
    ELSE IF den.clase = "cero" THEN (IF num.clase = "cero" THEN "inside" ELSE "outside")
    ELSE IF num.clase \in {"-inf", "cero"} THEN "outside"
    ELSE IF MenorIgual(Potencia(num.de.v, Umbral[2]), Potencia(den.de.v, Umbral[1]))
         THEN "outside" ELSE "inside"

\* the label of an airport: its clean name and whether the globe follows it
Etiqueta(nombre, mundo) == [nombre |-> NOMBRES_get(title(nombre)), mundo |-> mundo]

\* top40 lines 49-57: the filters by year and kind and the pivot by airport
\* and origin, absent cells filled with 0
Top40Pivotar ==
    /\ script = "top40" /\ pc = "inicio"
    /\ tabla' = pivot_table(Filtrado, Aeropuerto, Tipo, OrdenAeropuertos, Val(0))
    /\ pc' = "totales"
    /\ UNCHANGED <<script, df, args, internacional, error, archivos, varsSerie>>

\* top40 lines 60-63: the column TOTAL and the removal of the rows where it
\* is 0
Top40Totales ==
    /\ script = "top40" /\ pc = "totales"
    /\ LET con == ConColumna(tabla, "TOTAL", Sumas(tabla))
       IN tabla' = Frame(con.columns,
                         SelectSeq(con.rows, LAMBDA r : r.v["TOTAL"].v # 0))
    /\ pc' = "etiquetas"
    /\ UNCHANGED <<script, df, args, internacional, error, archivos, varsSerie>>

\* top40 lines 66-71: the clean names and the globe for the rows whose
\* INTERNACIONAL cell is positive; a KeyError when the frame has rows and no
\* such column; on a frame without rows the outcome of apply is not fixed
Top40Etiquetas ==
    /\ script = "top40" /\ pc = "etiquetas"
    /\ \E vacio_falla \in BOOLEAN :
         IF tabla.rows # <<>> /\ "INTERNACIONAL" \notin tabla.columns
         THEN /\ pc' = "error" /\ error' = KeyError("INTERNACIONAL", "etiquetas")
              /\ UNCHANGED tabla
         ELSE IF tabla.rows = <<>> /\ vacio_falla
         THEN /\ pc' = "error" /\ error' = Error("ValueError", "etiquetas")
              /\ UNCHANGED tabla
         ELSE /\ tabla' = Frame(tabla.columns,
                   [j \in 1..Len(tabla.rows) |->
                      [key |-> Etiqueta(tabla.rows[j].key,
                                        tabla.rows[j].v["INTERNACIONAL"].v > 0),
                       v |-> tabla.rows[j].v]])
              /\ pc' = "razon"
              /\ UNCHANGED error
    /\ UNCHANGED <<script, df, args, internacional, archivos, varsSerie>>

\* a nonzero international row of any kind of information
EsInternacionalSinOpcion(r) ==
    r.tipo = "INTERNACIONAL/ INTERNATIONAL" /\ r.total # 0

\* top50 lines 52-56: a nonzero row of international flights
EsInternacional(r) ==
    /\ r.tipo = "INTERNACIONAL/ INTERNATIONAL"
    /\ r.opcion = "OPERACIONES/ FLIGHTS"
    /\ r.total # 0

\* top50 lines 49-62: the filter by year and the clean names of the airports
\* with a nonzero row of international flights
Top50Internacional ==
    /\ script = "top50" /\ pc = "inicio"
    /\ internacional' =
          {NOMBRES_get(title(df[i].aeropuerto)) :
             i \in {j \in 1..Len(df) : /\ df[j].anio = args.anio
                                       /\ EsInternacional(df[j])}}
    /\ pc' = "pivotar"
    /\ UNCHANGED <<script, df, args, tabla, error, archivos, varsSerie>>

\* top50 lines 65-80: the filter by kind and the pivot by airport and origin,
\* without fill_value
Top50Pivotar ==
    /\ script = "top50" /\ pc = "pivotar"
    /\ tabla' = pivot_table(Filtrado, Aeropuerto, Tipo, OrdenAeropuertos, NaN)
    /\ pc' = "etiquetas"
    /\ UNCHANGED <<script, df, args, internacional, error, archivos, varsSerie>>

\* top50 lines 83-86: the clean names and the globe for the airports in the
\* list internacional
Top50Etiquetas ==
    /\ script = "top50" /\ pc = "etiquetas"
    /\ tabla' = Frame(tabla.columns,
          [j \in 1..Len(tabla.rows) |->
             [key |-> Etiqueta(tabla.rows[j].key,
                               NOMBRES_get(title(tabla.rows[j].key)) \in internacional),
              v |-> tabla.rows[j].v]])
    /\ pc' = "totales"
    /\ UNCHANGED <<script, df, args, internacional, error, archivos, varsSerie>>

\* top50 line 89: the column total; no row is removed
Top50Totales ==
    /\ script = "top50" /\ pc = "totales"
    /\ tabla' = ConColumna(tabla, "total", Sumas(tabla))
    /\ pc' = "razon"
    /\ UNCHANGED <<script, df, args, internacional, error, archivos, varsSerie>>

\* the rows of main kept by head
TopN == IF script = "top40" THEN Top40N ELSE Top50N

\* top40 lines 74-75, top50 lines 92-94: the ratio of the logarithm of each
\* total to the logarithm of the largest total, and the position of the text
Razon ==
    /\ script \in {"top40", "top50"} /\ pc = "razon"
    /\ LET den == log10(ColMax(tabla, ColTotal))
           ratio == [j \in 1..Len(tabla.rows) |->
                       [num |-> log10(tabla.rows[j].v[ColTotal]), den |-> den]]
           con == ConColumna(tabla, "ratio", ratio)
       IN tabla' = ConColumna(con, "text_pos",
                              [j \in 1..Len(tabla.rows) |->
                                 text_pos(ratio[j].num, ratio[j].den)])
    /\ pc' = "ordenar"
    /\ UNCHANGED <<script, df, args, internacional, error, archivos, varsSerie>>

\* ascending order of the totals
DespuesAscendente(a, b) == b > a

\* ascending=False: whether a row of total b goes after a row of total a
Despues(a, b) == b < a

\* the pairs of rows of equal value in column c
Empates(f, c) ==
    {e \in (1..Len(f.rows)) \X (1..Len(f.rows)) :
        e[1] < e[2] /\ f.rows[e[1]].v[c].v = f.rows[e[2]].v[c].v}

\* the place of row j of f when sorted by column c: after the rows that go
\* before it and after the rows of equal value that cede puts before it
Lugar(f, c, cede, j) ==
    1 + Cardinality({i \in 1..Len(f.rows) :
                       \/ Despues(f.rows[i].v[c].v, f.rows[j].v[c].v)
                       \/ /\ i < j /\ f.rows[i].v[c].v = f.rows[j].v[c].v
                          /\ <<i, j>> \notin cede
                       \/ <<j, i>> \in cede})

\* df.head(n)
head(rows, n) == SubSeq(rows, 1, IF Len(rows) > n THEN n ELSE Len(rows))

\* sort_values(total, ascending=False) and head: the rows from the largest
\* total down, rows of equal total in any order, and the first TopN of them
Ordenar ==
    /\ script \in {"top40", "top50"} /\ pc = "ordenar"
    /\ \E cede \in SUBSET Empates(tabla, ColTotal) :
         LET n == Len(tabla.rows)
             lugar == [j \in 1..n |-> Lugar(tabla, ColTotal, cede, j)]
         IN /\ \A l \in 1..n : \E j \in 1..n : lugar[j] = l
            /\ tabla' = Frame(tabla.columns,
                              head([l \in 1..n |->
                                      tabla.rows[CHOOSE j \in 1..n : lugar[j] = l]],
                                   TopN))
    /\ pc' = "graficar"
    /\ UNCHANGED <<script, df, args, internacional, error, archivos, varsSerie>>

\* the bar chart: its logarithmic axis goes from log10 of the smallest total
\* to log10 of the largest, and the image is written to ./{opcion}_{año}.png
GraficarTop ==
    /\ script \in {"top40", "top50"} /\ pc = "graficar"
    /\ \E render_falla \in BOOLEAN :
         IF render_falla
         THEN /\ pc' = "error" /\ error' = Error("RenderError", "graficar")
              /\ UNCHANGED archivos
         ELSE LET nombre == <<"./", args.opcion, "_", ToString(args.anio), ".png">>
                  rango == <<log10(ColMin(tabla, ColTotal)),
                             log10(ColMax(tabla, ColTotal))>>
              IN /\ archivos' = (nombre :> [filas |-> tabla.rows, rango |-> rango])
                                   @@ archivos
                 /\ pc' = "fin"
                 /\ UNCHANGED error
    /\ UNCHANGED <<script, df, args, tabla, internacional, varsSerie>>

NextPivot ==
    \/ CompPivotar \/ CompMeses \/ CompGraficar
    \/ Top40Pivotar \/ Top40Totales \/ Top40Etiquetas
    \/ Top50Internacional \/ Top50Pivotar \/ Top50Etiquetas \/ Top50Totales
    \/ Razon \/ Ordenar \/ GraficarTop

SpecPivot == InitPivot /\ [][NextPivot]_vars

----------------------------------------------------------------------------
(* Properties of the pivot scripts *)

\* the pivot table has just been built
Pivotada ==
    /\ script \in {"comparacion_anual", "top40", "top50"}
    /\ pc = IF script = "comparacion_anual" THEN "meses"
            ELSE IF script = "top40" THEN "totales" ELSE "etiquetas"

\* the column keys main goes on to read: the two years, the two origins
ColumnasDeclaradas ==
    IF script = "comparacion_anual" THEN {args.primer, args.segundo}
    ELSE TiposDe(script)

IndexDe(r) == IF script = "comparacion_anual" THEN r[Mes] ELSE r[Aeropuerto]
ColumnaDe(r) == IF script = "comparacion_anual" THEN r[Anio] ELSE r[Tipo]

\* the filtered records of one cell
DeLaCelda(k, c) == SelectSeq(Filtrado, LAMBDA r : IndexDe(r) = k /\ ColumnaDe(r) = c)

\* C3: in the pivot table of comparacion_anual, top40 and top50 every declared
\* column exists, and every cell of a row and a declared column is a defined
\* number, 0 when no record matches the pair.
C3_CeldasDefinidas ==
    Pivotada =>
        /\ ColumnasDeclaradas \subseteq tabla.columns
        /\ \A j \in 1..Len(tabla.rows) : \A c \in ColumnasDeclaradas :
              /\ ~tabla.rows[j].v[c].nan
              /\ DeLaCelda(tabla.rows[j].key, c) = <<>> => tabla.rows[j].v[c].v = 0

\* the ratio column has just been computed
Razonada == script \in {"top40", "top50"} /\ pc = "ordenar"

\* C5: in top40 and top50 no row with total 0 reaches log10, and the divisor
\* log10(max total) of the ratio is not 0.
C5_SinLogaritmoDeCero ==
    Razonada =>
        \A j \in 1..Len(tabla.rows) :
            /\ tabla.rows[j].v[ColTotal].v # 0
            /\ tabla.rows[j].v["ratio"].num.clase # "-inf"
            /\ tabla.rows[j].v["ratio"].den.clase # "cero"

\* the sum of the defined cells of the pivot table
SumaCeldas ==
    SumSeq([j \in 1..Len(tabla.rows) |-> SumaFila(tabla, tabla.rows[j])])

\* the sum of the totals of the filtered records
SumaFiltrado == SumSeq([i \in 1..Len(Filtrado) |-> Filtrado[i].total])

\* C6: the cells of the pivot table add up to the totals of the records that
\* pass the filters of main: no record is lost or counted twice.
C6_SumaConservada == Pivotada => SumaCeldas = SumaFiltrado

\* a pivot table with a cell that adds two nonzero records, next to records
\* the filters removed
C6_Witness ==
    /\ Pivotada
    /\ Len(Filtrado) < Len(df)
    /\ \E j \in 1..Len(tabla.rows) : \E c \in tabla.columns :
          LET suyos == DeLaCelda(tabla.rows[j].key, c)
          IN /\ Len(suyos) >= 2
             /\ \A i \in 1..Len(suyos) : suyos[i].total # 0
             /\ tabla.rows[j].v[c].v = SumSeq([i \in 1..Len(suyos) |-> suyos[i].total])

\* comparacion_anual.main has relabelled the rows of the pivot table
Relabelada == script = "comparacion_anual" /\ pc = "graficar"

\* the sum of the defined cells of column c of the pivot table
SumaColumna(c) == SumSeq([j \in 1..Len(tabla.rows) |-> Num(tabla.rows[j].v[c])])

\* the sum of the totals of the filtered records of one year
SumaDelAnio(anio) ==
    SumSeq([i \in 1..Len(Filtrado) |->
              IF Filtrado[i].anio = anio THEN Filtrado[i].total ELSE 0])

\* C11: the month x year table of comparacion_anual.main is relabelled without
\* an error and then has the twelve month labels as rows, in calendar order,
\* and the two requested years as columns, each column adding up to the totals
\* of its year, also when a calendar month has no record in either year.
C11_DoceMesesDosAnios ==
    script = "comparacion_anual" =>
        /\ ~(error.exc = "ValueError" /\ error.paso = "meses")
        /\ Relabelada =>
              /\ [j \in 1..Len(tabla.rows) |-> tabla.rows[j].key] = MESES_abreviados
              /\ tabla.columns = {args.primer, args.segundo}
              /\ \A c \in tabla.columns : SumaColumna(c) = SumaDelAnio(c)

\* the sum of the totals of the filtered records of one cell
SumaDeLaCelda(k, c) ==
    LET suyos == DeLaCelda(k, c)
    IN SumSeq([i \in 1..Len(suyos) |-> suyos[i].total])

\* C13: every cell of the pivot table of comparacion_anual, top40 and top50 is
\* the sum of the totals of the filtered records with its row key and its
\* column key; records with the same keys are added together.
C13_CeldaEsSuma ==
    Pivotada =>
        \A j \in 1..Len(tabla.rows) : \A c \in tabla.columns :
            tabla.rows[j].v[c] = Val(SumaDeLaCelda(tabla.rows[j].key, c))

\* main holds the table it charts
Ordenada == script \in {"top40", "top50"} /\ pc = "graficar"

\* the airports of the filtered records, and the sum of the totals of one
AeropuertosFiltrados == {Filtrado[i].aeropuerto : i \in 1..Len(Filtrado)}
TotalDe(a) ==
    LET suyos == SelectSeq(Filtrado, LAMBDA r : r.aeropuerto = a)
    IN SumSeq([i \in 1..Len(suyos) |-> suyos[i].total])

\* the airport has a row in the table
Graficado(a) ==
    \E j \in 1..Len(tabla.rows) : tabla.rows[j].key.nombre = NOMBRES_get(title(a))

TotalInternacional(nombre) ==
    LET suyos == SelectSeq(Filtrado, LAMBDA r :
                     /\ NOMBRES_get(title(r.aeropuerto)) = nombre
                     /\ r.tipo = InternacionalDe(script))
    IN SumSeq([i \in 1..Len(suyos) |-> suyos[i].total])

\* the table of the year has a nonzero row of international flights of an
\* airport of clean name nombre
VuelosInternacionales(nombre) ==
    \E i \in 1..Len(df) :
        /\ df[i].anio = args.anio
        /\ NOMBRES_get(title(df[i].aeropuerto)) = nombre
        /\ df[i].tipo = InternacionalDe(script)
        /\ df[i].opcion = OperacionesDe(script)
        /\ df[i].total # 0

\* C18 (as stated): in the table charted by top40.main and by top50.main a
\* label carries the globe exactly when the international total of the
\* airport, for the kind of information and the year charted, is positive.
C18_MarcaPorOpcion ==
    Ordenada =>
        \A j \in 1..Len(tabla.rows) :
            tabla.rows[j].key.mundo <=> TotalInternacional(tabla.rows[j].key.nombre) > 0

\* C18 (amended): in top40.main the globe goes with a positive international
\* total of the kind of information charted; in top50.main it goes with a
\* nonzero row of international flights in the year, whichever kind is charted.
C18_MarcaPorVuelos ==
    Ordenada =>
        \A j \in 1..Len(tabla.rows) :
            tabla.rows[j].key.mundo <=>
                IF script = "top40"
                THEN TotalInternacional(tabla.rows[j].key.nombre) > 0
                ELSE VuelosInternacionales(tabla.rows[j].key.nombre)

\* top50 charts passengers and marks an airport that has international
\* flights and no international passenger
C18_Witness ==
    /\ Ordenada /\ script = "top50" /\ args.opcion = "pasajeros"
    /\ \E j \in 1..Len(tabla.rows) :
          /\ tabla.rows[j].key.mundo
          /\ TotalInternacional(tabla.rows[j].key.nombre) = 0
          /\ VuelosInternacionales(tabla.rows[j].key.nombre)

----------------------------------------------------------------------------
(* Further properties of the series scripts *)

\* C12: no stage changes another stage's output: the table read from the file
\* is never changed, and the smoothing or trend stage leaves the series that
\* extraer_series_de_tiempo returned as they were (same columns, rows, values).
C12_SinMutacion ==
    [][/\ df' = df
       /\ pc = "suavizar" => data' = data /\ data2' = data2]_vars

\* the position of x in the sequence s
Posicion(s, x) == CHOOSE i \in 1..Len(s) : s[i] = x

\* the years of the filtered records of a series, in order of first appearance
AniosDe(s) == unique(Columna(Filtrar(df, aeropuerto, s.tipo), "anio"))

\* C14: a series returned by extraer_series_de_tiempo lists the years in the
\* order in which each first occurs among the filtered records and the months
\* of a year in calendar order; no timestamp occurs twice; and the series is
\* strictly increasing when the years first occur in ascending order.
C14_OrdenDeAparicion ==
    RecienExtraido =>
        \A s \in Series :
            LET rows == s.f.rows
                anios == AniosDe(s)
            IN /\ \A k \in 1..Len(rows) : \A l \in (k + 1)..Len(rows) :
                     /\ rows[k].ts # rows[l].ts
                     /\ Posicion(anios, rows[k].ts[1]) <= Posicion(anios, rows[l].ts[1])
                     /\ rows[k].ts[1] = rows[l].ts[1] => rows[k].ts[2] < rows[l].ts[2]
               /\ (\A i \in 1..(Len(anios) - 1) : anios[i] < anios[i + 1])
                     => Creciente(rows)

\* a series whose later year comes first, as in the table
C14_Witness ==
    /\ RecienExtraido
    /\ \E s \in Series : \E k \in 1..(Len(s.f.rows) - 1) :
          /\ s.f.rows[k].ts[1] > s.f.rows[k + 1].ts[1]
          /\ AniosDe(s)[1] = s.f.rows[1].ts[1]
          /\ Len(AniosDe(s)) = 2

\* the sum of the column of month m over the records of the table with the
\* airport of the run, the kind of information tipo, year y and origin o
SumaDelMes(tipo, y, m, o) ==
    SumSeq([i \in 1..Len(df) |->
              IF /\ df[i].aeropuerto = aeropuerto
                 /\ str_contains(df[i].opcion, tipo)
                 /\ df[i].anio = y
                 /\ df[i].tipo = o
              THEN df[i].meses[MESES_keys[m]] ELSE 0])

\* C15: at every timestamp (y, m, 1) of a series returned by
\* extraer_series_de_tiempo, the value of each origin column is the sum of the
\* month-m column over the records of the airport and kind requested with year
\* y and that origin, and the total is the sum of the origin columns.
C15_ValorEsSumaDelMes ==
    RecienExtraido =>
        \A s \in Series : \A k \in 1..Len(s.f.rows) :
            LET r == s.f.rows[k]
                origenes == s.f.columns \ {"total"}
            IN /\ r.ts[3] = 1
               /\ \A o \in origenes :
                     r.v[o] = Val(SumaDelMes(s.tipo, r.ts[1], r.ts[2], o))
               /\ r.v["total"] =
                     Val(SumSet([o \in origenes |->
                                   SumaDelMes(s.tipo, r.ts[1], r.ts[2], o)], origenes))

\* main has truncated the series and is about to chart them
PorGraficar == pc \in PasosGrafica

\* the timestamps of a frame, in order
Fechas(f) == [k \in 1..Len(f.rows) |-> f.rows[k].ts]

\* the last min(n, meses) timestamps of a series of n rows
UltimasFechas(f) ==
    SubSeq(Fechas(f), Max(0, Len(f.rows) - meses) + 1, Len(f.rows))

\* C17: after truncation each series handed to a chart holds the last
\* min(n, 96) timestamps of the series as synthesized, in order, and its
\* companion holds the same timestamps: in script.main the truncated rolling
\* mean, in tendencia.main the trend columns of the truncated frame itself.
C17_MismasFechas ==
    PorGraficar =>
        \A s \in SeriesMovil :
            /\ Fechas(s.f) = UltimasFechas(s.full)
            /\ IF script = "script"
               THEN Fechas(s.m) = Fechas(s.f)
               ELSE \A c \in {NACIONAL, INTERNACIONAL} :
                       (c \o "_trend") \in s.f.columns

\* a series longer than 96 months at the first chart: its truncation starts
\* later than the series itself
C17_Witness ==
    /\ PorGraficar
    /\ Len(data.rows) = meses
    /\ LET full == extraer_series_de_tiempo(df, aeropuerto, "PASAJEROS")
       IN /\ Len(full.rows) > meses
          /\ data.rows[1].ts # full.rows[1].ts
          /\ data.rows[meses].ts = full.rows[Len(full.rows)].ts

====
